---- MODULE Spec2Model ----
(***************************************************************************)
(* Anomaly-scoring engine of skills/betting-analytics/scripts/             *)
(* anomaly_detector.py: the four detectors, ensemble_anomaly_detection,    *)
(* analyze_anomalies and the ranking step of generate_report.              *)
(*                                                                         *)
(* Numbers.  A float is a record [n, d] standing for the rational n/d;     *)
(* d = 0 is NaN.  Dataset cells are whole numbers (d = 1).  Detector       *)
(* scores are held with denominator Scale; the only irrational quantity    *)
(* of the program, the standard deviation, enters a score as               *)
(* floor(Scale * sqrt(ratio)), so a score is exact at 0 and at the clip    *)
(* value 1.  Rounding of IEEE doubles is not modelled.                     *)
(*                                                                         *)
(* Index labels.  pandas numbers the rows of a fresh frame 0..n-1; the     *)
(* model numbers them 1..n.                                                *)
(***************************************************************************)
EXTENDS Integers, Sequences, FiniteSets, TLC

VARIABLES df, pc, out, results, report

vars == <<df, pc, out, results, report>>

----------------------------------------------------------------------------
(* Bounds of the model *)

MaxVal == 1
MaxExtra == 1
Scale == 100
\* the spike series: its length, its baseline and its highest spike, amounts in
\* units of 10
SpikeLen == 30
Baseline == 10
MaxSpike == 100

(* Constants of the program *)

MinSeries == 10
ZThreshold == 3
Window == 20
EpsInv == 1000000
TopN == 10

----------------------------------------------------------------------------
(* Floats *)

NaN == [n |-> 0, d |-> 0]

Num(a, b) == [n |-> a, d |-> b]

Whole(a) == [n |-> a, d |-> 1]

IsNaN(x) == x.d = 0

\* x >= y as IEEE compares: false as soon as one side is NaN
Ge(x, y) == ~IsNaN(x) /\ ~IsNaN(y) /\ x.n * y.d >= y.n * x.d

Gt(x, y) == ~IsNaN(x) /\ ~IsNaN(y) /\ x.n * y.d > y.n * x.d

FEq(x, y) == ~IsNaN(x) /\ ~IsNaN(y) /\ x.n * y.d = y.n * x.d

Abs(k) == IF k < 0 THEN 0 - k ELSE k

Min2(a, b) == IF a <= b THEN a ELSE b

\* floor(sqrt(k)) for 0 <= k < (Scale+1)^2
ISqrt(k) == CHOOSE r \in 0..Scale : r * r <= k /\ k < (r + 1) * (r + 1)

\* min(sqrt(a/b), 1) as a score with denominator Scale (a >= 0, b > 0)
SqrtRatioClipped(a, b) ==
    IF a >= b THEN Num(Scale, Scale) ELSE Num(ISqrt((Scale * Scale * a) \div b), Scale)

\* min(a/b, 1) as a score with denominator Scale (a >= 0, b > 0)
RatioClipped(a, b) ==
    IF a >= b THEN Num(Scale, Scale) ELSE Num((Scale * a) \div b, Scale)

Zero == Num(0, Scale)

RECURSIVE SumSeq(_)
SumSeq(s) == IF s = <<>> THEN 0 ELSE Head(s) + SumSeq(Tail(s))

\* the elements of a finite set of integers, ascending
RECURSIVE SortedSeq(_)
SortedSeq(S) ==
    IF S = {} THEN <<>>
    ELSE <<CHOOSE x \in S : \A y \in S : x <= y>>
         \o SortedSeq(S \ {CHOOSE x \in S : \A y \in S : x <= y})

----------------------------------------------------------------------------
(* pandas Series and DataFrame *)

\* a Series: index labels and values, position by position
Ser(idx, vals) == [index |-> idx, values |-> vals]

SLen(s) == Len(s.index)

EmptySer == Ser(<<>>, <<>>)

\* the positions of s whose value is present
PresentPos(s) == {p \in 1..SLen(s) : ~IsNaN(s.values[p])}

\* Series.dropna(): the present values, order and labels kept
DropNa(s) ==
    LET keep == SortedSeq(PresentPos(s))
    IN Ser([k \in 1..Len(keep) |-> s.index[keep[k]]],
           [k \in 1..Len(keep) |-> s.values[keep[k]]])

HasLabel(s, l) == \E p \in 1..SLen(s) : s.index[p] = l

AtLabel(s, l) == s.values[CHOOSE p \in 1..SLen(s) : s.index[p] = l]

\* Series.reindex(index, fill_value=fill)
Reindex(s, idx, fill) ==
    Ser(idx, [k \in 1..Len(idx) |-> IF HasLabel(s, idx[k]) THEN AtLabel(s, idx[k]) ELSE fill])

\* pd.Series(c, index=idx)
ConstSer(idx, c) == Ser(idx, [k \in 1..Len(idx) |-> c])

\* a frame: its index and its columns; a column has a name, a dtype flag and cells
NumericCols(d) == SortedSeq({c \in 1..Len(d.cols) : d.cols[c].numeric})

\* df[col]
Col(d, c) == Ser(d.index, d.cols[c].data)

\* a result: the value returned, or the exception raised
Ok(v) == [err |-> "none", val |-> v]

Raise(e) == [err |-> e, val |-> EmptySer]

----------------------------------------------------------------------------
(* detect_zscore_anomalies *)

\* sum and sum of squares of the present values (Series.mean/std skip NaN)
PresentVals(s) ==
    LET keep == SortedSeq(PresentPos(s))
    IN [k \in 1..Len(keep) |-> s.values[keep[k]].n]

Squares(xs) == [k \in 1..Len(xs) |-> xs[k] * xs[k]]

\* cnt * (cnt-1) * variance, which is zero exactly when std is zero
SpreadOf(xs) == Len(xs) * SumSeq(Squares(xs)) - SumSeq(xs) * SumSeq(xs)

\* the scores had the deviation been taken with its sign (no np.abs): a value
\* below the mean has a negative quotient, held here as 0
DetectZscoreSigned(series, threshold) ==
    LET xs == PresentVals(series)
        cnt == Len(xs)
        sm == SumSeq(xs)
        spread == SpreadOf(xs)
        stdNaN == cnt < 2
        score(x) ==
            IF cnt * x - sm < 0 THEN Zero
            ELSE SqrtRatioClipped((cnt * x - sm) * (cnt * x - sm) * (cnt - 1),
                                  threshold * threshold * cnt * spread)
    IN IF ~stdNaN /\ spread = 0
       THEN ConstSer(series.index, Zero)
       ELSE Ser(series.index,
                [p \in 1..SLen(series) |->
                    IF stdNaN \/ IsNaN(series.values[p]) THEN NaN
                    ELSE score(series.values[p].n)])

DetectZscoreAnomalies(series, threshold) ==
    LET xs == PresentVals(series)
        cnt == Len(xs)
        sm == SumSeq(xs)
        spread == SpreadOf(xs)
        \* std of fewer than two values is NaN (ddof = 1)
        stdNaN == cnt < 2
        \* |x - mean| / std / threshold, clipped at 1:
        \* ((cnt*x - sm)^2 * (cnt-1)) / (threshold^2 * cnt * spread) under the root
        score(x) ==
            SqrtRatioClipped((cnt * x - sm) * (cnt * x - sm) * (cnt - 1),
                             threshold * threshold * cnt * spread)
    IN IF ~stdNaN /\ spread = 0
       THEN ConstSer(series.index, Zero)
       ELSE Ser(series.index,
                [p \in 1..SLen(series) |->
                    IF stdNaN \/ IsNaN(series.values[p]) THEN NaN
                    ELSE score(series.values[p].n)])

----------------------------------------------------------------------------
(* detect_iqr_anomalies *)

\* the values of a sequence of integers, ascending
SortInts(xs) ==
    [k \in 1..Len(xs) |->
        CHOOSE v \in {xs[i] : i \in 1..Len(xs)} :
            /\ Cardinality({i \in 1..Len(xs) : xs[i] < v}) < k
            /\ k <= Cardinality({i \in 1..Len(xs) : xs[i] <= v})]

\* four times Series.quantile(quarters/4) of the present values (linear
\* interpolation between the two nearest ranks); NaN for an empty series
Quantile4(series, quarters) ==
    LET v == SortInts(PresentVals(series))
        pos == (Len(v) - 1) * quarters
        lo == (pos \div 4) + 1
        fr == pos % 4
    IN IF Len(v) = 0 THEN NaN
       ELSE IF fr = 0 THEN Num(4 * v[lo], 4)
       ELSE Num(4 * v[lo] + fr * (v[lo + 1] - v[lo]), 4)

\* np.maximum(x1, x2, 0): the third positional argument of a numpy ufunc is
\* its output array, and the integer 0 is not one, so the call raises TypeError
\* for every x1, x2
NpMaximumOut(x1, x2, o) == Raise("TypeError")

IqrK == [n |-> 3, d |-> 2]

DetectIqrAnomalies(series, k) ==
    LET q1 == Quantile4(series, 1)
        q3 == Quantile4(series, 3)
        empty == IsNaN(q1)
        iqr4 == q3.n - q1.n
        \* bounds and distances with denominator den
        den == 4 * k.d
        lower == q1.n * k.d - k.n * iqr4
        upper == q3.n * k.d + k.n * iqr4
        below == [p \in 1..SLen(series) |->
                     IF empty \/ IsNaN(series.values[p]) THEN NaN
                     ELSE Num(lower - den * series.values[p].n, den)]
        above == [p \in 1..SLen(series) |->
                     IF empty \/ IsNaN(series.values[p]) THEN NaN
                     ELSE Num(den * series.values[p].n - upper, den)]
        distances == NpMaximumOut(Ser(series.index, below), Ser(series.index, above), 0)
        range_val == upper - lower
    IN IF distances.err # "none" THEN Raise(distances.err)
       ELSE IF ~empty /\ range_val > 0
       THEN Ok(Ser(series.index,
                   [p \in 1..SLen(series) |->
                       IF IsNaN(distances.val.values[p]) THEN NaN
                       ELSE RatioClipped(distances.val.values[p].n, k.n * iqr4)]))
       ELSE Ok(ConstSer(series.index, Zero))

----------------------------------------------------------------------------
(* detect_isolation_forest_anomalies *)

\* the index labels of the rows that have every numeric cell: df[numeric_cols].dropna()
CompleteRows(d) ==
    LET keep == {p \in 1..Len(d.index) :
                    \A c \in 1..Len(d.cols) : d.cols[c].numeric => ~IsNaN(d.cols[c].data[p])}
        pos == SortedSeq(keep)
    IN [k \in 1..Len(pos) |-> d.index[pos[k]]]

\* StandardScaler().fit_transform(X) refuses an array without samples
FitTransform(rows) == IF Len(rows) = 0 THEN Raise("ValueError") ELSE Ok(EmptySer)

\* model.decision_function(X_scaled) on the IsolationForest just constructed:
\* fit() was never called, so sklearn raises NotFittedError whatever X is
DecisionFunction(rows) == [err |-> "NotFittedError", raw |-> <<>>]

SeqMin(xs) == CHOOSE m \in {xs[i] : i \in 1..Len(xs)} : \A i \in 1..Len(xs) : m <= xs[i]

SeqMax(xs) == CHOOSE m \in {xs[i] : i \in 1..Len(xs)} : \A i \in 1..Len(xs) : m >= xs[i]

DetectIsolationForestAnomalies(d) ==
    LET rows == CompleteRows(d)
        scaled == FitTransform(rows)
        scores == DecisionFunction(rows)
        min_score == SeqMin(scores.raw)
        max_score == SeqMax(scores.raw)
        anomaly_scores ==
            [k \in 1..Len(rows) |->
                IF max_score - min_score > 0
                THEN Num((Scale * (max_score - scores.raw[k])) \div (max_score - min_score), Scale)
                ELSE Zero]
    IN IF Len(NumericCols(d)) = 0 THEN Raise("ValueError")
       ELSE IF scaled.err # "none" THEN Raise(scaled.err)
       ELSE IF scores.err # "none" THEN Raise(scores.err)
       ELSE \* result = pd.Series(0.0, index=df.index); result.loc[X.index] = anomaly_scores
            Ok(Reindex(Ser(rows, anomaly_scores), d.index, Zero))

----------------------------------------------------------------------------
(* detect_time_series_anomalies *)

TsThreshold == 3

\* the positions of the centred window of position p: pandas labels a window of
\* even size w at its right-of-centre element, [p - w + 1 + (w-1)//2, p + (w-1)//2]
\* the window had it been the point and its predecessor only
WindowPosPair(series, window, p) ==
    {q \in 1..SLen(series) : p - 1 <= q /\ q <= p}

WindowPos(series, window, p) ==
    {q \in 1..SLen(series) :
        /\ p - window + 1 + ((window - 1) \div 2) <= q
        /\ q <= p + ((window - 1) \div 2)}

\* the scores had 1e-6 not been substituted and the missing scores not been
\* filled: 0/0 and a missing value give NaN
DetectTimeSeriesUnfilled(series, window) ==
    LET wvals(p) ==
            LET keep == SortedSeq(WindowPos(series, window, p) \cap PresentPos(series))
            IN [k \in 1..Len(keep) |-> series.values[keep[k]].n]
        score(p) ==
            LET xs == wvals(p)
                cnt == Len(xs)
                sm == SumSeq(xs)
                spread == SpreadOf(xs)
                x == series.values[p].n
                dev == Abs(cnt * x - sm)
            IN IF cnt < 2 \/ spread = 0
               THEN NaN
               ELSE SqrtRatioClipped(dev * dev * (cnt - 1),
                                     TsThreshold * TsThreshold * cnt * spread)
    IN Ser(series.index,
           [p \in 1..SLen(series) |->
               IF IsNaN(series.values[p]) THEN NaN ELSE score(p)])

DetectTimeSeriesAnomalies(series, window) ==
    LET wvals(p) ==
            LET keep == SortedSeq(WindowPos(series, window, p) \cap PresentPos(series))
            IN [k \in 1..Len(keep) |-> series.values[keep[k]].n]
        score(p) ==
            LET xs == wvals(p)
                cnt == Len(xs)
                sm == SumSeq(xs)
                spread == SpreadOf(xs)
                x == series.values[p].n
                dev == Abs(cnt * x - sm)
            IN IF cnt < 2 \/ spread = 0
               THEN \* rolling_std is NaN or 0: replaced by 1e-6
                    RatioClipped(dev * EpsInv, cnt * TsThreshold)
               ELSE SqrtRatioClipped(dev * dev * (cnt - 1),
                                     TsThreshold * TsThreshold * cnt * spread)
    IN Ser(series.index,
           [p \in 1..SLen(series) |->
               \* a missing value has a NaN residual, which fillna(0) turns into 0
               IF IsNaN(series.values[p]) THEN Zero ELSE score(p)])

----------------------------------------------------------------------------
(* ensemble_anomaly_detection *)

\* an optional argument: None, or Some(value)
None == <<>>

Some(x) == <<x>>

InList(x, xs) == \E i \in 1..Len(xs) : xs[i] = x

DefaultMethods == <<"zscore", "iqr", "isolation_forest">>

\* weights are held in tenths
DefaultWeights == [zscore |-> 3, iqr |-> 3, isolation_forest |-> 4]

\* 'time' in col.lower() or 'date' in col.lower(), over the column names in use
TimeLike(name) == name \in {"bet_date"}

\* the positions in the order of their ranks: ranks[p] is the number of
\* positions that come before p
Ranked(ranks) == [k \in 1..Len(ranks) |-> CHOOSE p \in 1..Len(ranks) : ranks[p] = k - 1]

\* the positions of the rows in the order df.sort_values(col) gives them:
\* ascending keys, missing keys last (the frames analysed have distinct keys;
\* equal keys are left in row order here)
SortOrder(d, c) ==
    LET key(p) == d.cols[c].data[p]
        before(q, p) ==
            \/ ~IsNaN(key(q)) /\ IsNaN(key(p))
            \/ ~IsNaN(key(q)) /\ ~IsNaN(key(p)) /\ key(q).n < key(p).n
            \/ (IsNaN(key(q)) <=> IsNaN(key(p))) /\ (IsNaN(key(p)) \/ key(q).n = key(p).n) /\ q < p
        len == Len(d.index)
    IN Ranked([p \in 1..len |-> Cardinality({q \in 1..len : before(q, p)})])

SortValues(d, c) ==
    LET ord == SortOrder(d, c)
    IN [index |-> [k \in 1..Len(ord) |-> d.index[ord[k]]],
        cols |-> [j \in 1..Len(d.cols) |->
                     [d.cols[j] EXCEPT !.data = [k \in 1..Len(ord) |-> d.cols[j].data[ord[k]]]]]]

\* an entry scores[col][method]: a Series, or (array = TRUE) bare values
Term(c, m, arr, r) == [col |-> c, method |-> m, array |-> arr, res |-> r]

\* the entries had the columns of fewer than 10 values not been skipped
RECURSIVE ColumnTermsNoMinimum(_, _, _)
ColumnTermsNoMinimum(d, cols, methods) ==
    IF cols = <<>> THEN <<>>
    ELSE LET col == Head(cols)
             series == DropNa(Col(d, col))
             z == IF InList("zscore", methods)
                  THEN <<Term(col, "zscore", FALSE, Ok(DetectZscoreAnomalies(series, ZThreshold)))>>
                  ELSE <<>>
             q == IF InList("iqr", methods)
                  THEN <<Term(col, "iqr", FALSE, DetectIqrAnomalies(series, IqrK))>>
                  ELSE <<>>
         IN (z \o q) \o ColumnTermsNoMinimum(d, Tail(cols), methods)

\* lines 202-217: the z-score and IQR entries of the numeric columns cols
RECURSIVE ColumnTerms(_, _, _)
ColumnTerms(d, cols, methods) ==
    IF cols = <<>> THEN <<>>
    ELSE LET col == Head(cols)
             series == DropNa(Col(d, col))
             z == IF InList("zscore", methods)
                  THEN <<Term(col, "zscore", FALSE, Ok(DetectZscoreAnomalies(series, ZThreshold)))>>
                  ELSE <<>>
             q == IF InList("iqr", methods)
                  THEN <<Term(col, "iqr", FALSE, DetectIqrAnomalies(series, IqrK))>>
                  ELSE <<>>
         IN (IF SLen(series) < MinSeries THEN <<>> ELSE z \o q)
            \o ColumnTerms(d, Tail(cols), methods)

\* lines 219-225: the isolation-forest entry; an exception is printed and dropped
GlobalTerms(d, methods) ==
    IF InList("isolation_forest", methods) /\ Len(NumericCols(d)) > 0
    THEN LET r == DetectIsolationForestAnomalies(d)
         IN IF r.err = "none" THEN <<Term(0, "isolation_forest", FALSE, r)>> ELSE <<>>
    ELSE <<>>

FirstN(xs, k) == [i \in 1..Min2(k, Len(xs)) |-> xs[i]]

\* lines 227-237: the rolling entries of the first three numeric columns, computed
\* on the frame sorted by its first time-like column and stored as bare values
RECURSIVE RollingTerms(_, _)
RollingTerms(sorted, cols) ==
    IF cols = <<>> THEN <<>>
    ELSE LET col == Head(cols)
             series == DropNa(Col(sorted, col))
         IN (IF SLen(series) >= MinSeries
             THEN <<Term(col, "time_series", TRUE,
                         Ok(DetectTimeSeriesAnomalies(series, Window)))>>
             ELSE <<>>)
            \o RollingTerms(sorted, Tail(cols))

TimeCols(d) == SortedSeq({c \in 1..Len(d.cols) : TimeLike(d.cols[c].name)})

TimeTerms(d) ==
    IF Len(TimeCols(d)) > 0 /\ Len(NumericCols(d)) > 0
    THEN RollingTerms(SortValues(d, TimeCols(d)[1]), FirstN(NumericCols(d), 3))
    ELSE <<>>

\* the caller's frame had the sort been made in place (inplace=True)
DfAfterEnsembleInPlace(d) ==
    IF Len(TimeCols(d)) > 0 /\ Len(NumericCols(d)) > 0
    THEN SortValues(d, TimeCols(d)[1])
    ELSE d

\* the caller's frame after the call: df[col].dropna() (lines 203, 232) and
\* df.sort_values(...) (line 230) return new objects, df is only read
DfAfterEnsemble(d) == d

\* the entries of scores, in the order they are made
EnsembleTerms(d, methods) ==
    ColumnTerms(d, NumericCols(d), methods) \o GlobalTerms(d, methods) \o TimeTerms(d)

\* lines 245-249: bare values are labelled with the first labels of df.index,
\* then every entry is reindexed to df.index with 0 for the labels it lacks
Aligned(d, term) ==
    LET sc == term.res.val
        labelled == IF term.array THEN Ser(FirstN(d.index, SLen(sc)), sc.values) ELSE sc
    IN Reindex(labelled, d.index, Zero)

\* weights.get(method, 1.0 / len(methods)), in units of 1/(10 * len(methods))
WeightOf(method, methods, weights) ==
    IF method \in DOMAIN weights THEN weights[method] * Len(methods) ELSE 10

\* clip(0, 1)
Clip01(x) ==
    IF IsNaN(x) THEN x
    ELSE IF x.n < 0 THEN Num(0, x.d)
    ELSE IF x.n > x.d THEN Num(x.d, x.d)
    ELSE x

\* the combination had the weighted sum been divided by the sum of the weights
\* whatever its sign: a zero sum gives 0/0 or x/0, held as NaN
CombineAlwaysDivide(vals, wts, unit) ==
    IF \E t \in 1..Len(vals) : IsNaN(vals[t]) THEN NaN
    ELSE IF SumSeq(wts) = 0 THEN NaN
    ELSE IF SumSeq(wts) > 0
    THEN Clip01(Num(SumSeq([t \in 1..Len(vals) |-> vals[t].n * wts[t]]), Scale * SumSeq(wts)))
    ELSE Clip01(Num(0 - SumSeq([t \in 1..Len(vals) |-> vals[t].n * wts[t]]),
                    Scale * (0 - SumSeq(wts))))

\* the combination had every entry overwritten one shared vector: the entry
\* handled last wins
CombineLastWins(vals, wts, unit) ==
    IF \E t \in 1..Len(vals) : IsNaN(vals[t]) THEN NaN
    ELSE Clip01(vals[Len(vals)])

\* lines 258-267, for one record: weighted sum over all entries, divided by the sum
\* of all weights when that is positive, clipped
Combine(vals, wts, unit) ==
    LET weighted == SumSeq([t \in 1..Len(vals) |-> vals[t].n * wts[t]])
        total_weight == SumSeq(wts)
    IN IF \E t \in 1..Len(vals) : IsNaN(vals[t]) THEN NaN
       ELSE IF total_weight > 0 THEN Clip01(Num(weighted, Scale * total_weight))
       ELSE Clip01(Num(weighted, Scale * unit))

\* the exception of the first entry that raised one, "none" otherwise
FirstFailure(terms) ==
    LET failed == {t \in 1..Len(terms) : terms[t].res.err # "none"}
    IN IF failed = {} THEN "none"
       ELSE terms[CHOOSE t \in failed : \A u \in failed : t <= u].res.err

\* lines 255-267: zeros when scores is empty, else the weighted average per record
CombineScores(d, methods, all_scores, all_weights) ==
    IF Len(all_scores) = 0 THEN Ok(ConstSer(d.index, Zero))
    \* the default of weights.get is evaluated for every entry
    ELSE IF Len(methods) = 0 THEN Raise("ZeroDivisionError")
    ELSE Ok(Ser(d.index,
                [k \in 1..Len(d.index) |->
                    Combine([t \in 1..Len(all_scores) |-> all_scores[t].values[k]],
                            all_weights, 10 * Len(methods))]))

\* lines 239-253: the entries aligned to df.index and their weights
EnsembleOf(d, methods, weights, terms) ==
    IF FirstFailure(terms) # "none" THEN Raise(FirstFailure(terms))
    ELSE CombineScores(d, methods,
                       [t \in 1..Len(terms) |-> Aligned(d, terms[t])],
                       [t \in 1..Len(terms) |->
                           WeightOf(terms[t].method, methods, weights)])

MethodsGiven(methodsArg) == IF methodsArg = None THEN DefaultMethods ELSE methodsArg[1]

WeightsGiven(weightsArg) == IF weightsArg = None THEN DefaultWeights ELSE weightsArg[1]

EnsembleAnomalyDetection(d, methodsArg, weightsArg) ==
    EnsembleOf(d, MethodsGiven(methodsArg), WeightsGiven(weightsArg),
               EnsembleTerms(d, MethodsGiven(methodsArg)))

----------------------------------------------------------------------------
(* analyze_anomalies *)

\* the rows selected had the comparison been written <= or >
FlaggedBelow(scores, threshold) ==
    LET keep == SortedSeq({p \in 1..SLen(scores) : Ge(threshold, scores.values[p])})
    IN [k \in 1..Len(keep) |->
           [label |-> scores.index[keep[k]], anomaly_score |-> scores.values[keep[k]]]]

FlaggedStrict(scores, threshold) ==
    LET keep == SortedSeq({p \in 1..SLen(scores) : Gt(scores.values[p], threshold)})
    IN [k \in 1..Len(keep) |->
           [label |-> scores.index[keep[k]], anomaly_score |-> scores.values[keep[k]]]]

\* the flagged rows, in frame order: df[anomaly_scores >= threshold] with the
\* anomaly_score column added
Flagged(scores, threshold) ==
    LET keep == SortedSeq({p \in 1..SLen(scores) : Ge(scores.values[p], threshold)})
    IN [k \in 1..Len(keep) |->
           [label |-> scores.index[keep[k]], anomaly_score |-> scores.values[keep[k]]]]

\* Series.mean/std/max/min/median skip NaN and give NaN for no value; the scores
\* of one vector share their denominator.  The 'std' entry holds the square of
\* the sample standard deviation (ddof = 1), NaN for fewer than two values.
ScoreStats(scores) ==
    LET keep == SortedSeq(PresentPos(scores))
        cnt == Len(keep)
        den == scores.values[keep[1]].d
        ns == SortInts([k \in 1..cnt |-> scores.values[keep[k]].n])
    IN IF cnt = 0 THEN [mean |-> NaN, std |-> NaN, max |-> NaN, min |-> NaN, median |-> NaN]
       ELSE [mean |-> Num(SumSeq(ns), cnt * den),
             std |-> IF cnt < 2 THEN NaN
                     ELSE Num(SpreadOf(ns), cnt * (cnt - 1) * den * den),
             max |-> Num(ns[cnt], den),
             min |-> Num(ns[1], den),
             median |-> IF cnt % 2 = 1 THEN Num(ns[(cnt + 1) \div 2], den)
                        ELSE Num(ns[cnt \div 2] + ns[(cnt \div 2) + 1], 2 * den)]

NoResults ==
    [err |-> "none", total_records |-> 0, anomaly_count |-> 0, anomaly_rate |-> Whole(0),
     method |-> "none", threshold |-> NaN,
     score_stats |-> [mean |-> NaN, std |-> NaN, max |-> NaN, min |-> NaN, median |-> NaN],
     anomalies |-> <<>>, scores |-> EmptySer]

\* the scores had the per-column methods read the last numeric column
AnalyzeScoresLastColumn(d, method) ==
    IF method = "zscore"
    THEN Ok(DetectZscoreAnomalies(Col(d, NumericCols(d)[Len(NumericCols(d))]), ZThreshold))
    ELSE IF method = "iqr"
    THEN DetectIqrAnomalies(Col(d, NumericCols(d)[Len(NumericCols(d))]), IqrK)
    ELSE IF method = "isolation_forest"
    THEN DetectIsolationForestAnomalies(d)
    ELSE EnsembleAnomalyDetection(d, None, None)

\* lines 290-301: the detector the method names; any other name runs the ensemble
AnalyzeScores(d, method) ==
    IF method = "zscore"
    THEN Ok(DetectZscoreAnomalies(Col(d, NumericCols(d)[1]), ZThreshold))
    ELSE IF method = "iqr"
    THEN DetectIqrAnomalies(Col(d, NumericCols(d)[1]), IqrK)
    ELSE IF method = "isolation_forest"
    THEN DetectIsolationForestAnomalies(d)
    ELSE EnsembleAnomalyDetection(d, None, None)

\* the caller's frame after the call: the anomaly_score column is added to the
\* copy df[...].copy() (lines 304-305); only the 'else' branch passes df on whole
DfAfterAnalyze(d, method) ==
    IF Len(NumericCols(d)) = 0 \/ method \in {"zscore", "iqr", "isolation_forest"} THEN d
    ELSE DfAfterEnsemble(d)

\* lines 287-288 and a detector's exception: no results are returned
AnalyzeFailed(e, method, threshold) ==
    [NoResults EXCEPT !.err = e, !.method = method, !.threshold = threshold]

\* the results had the statistics been taken over the flagged records only
AnalyzeResultsOverFlagged(d, method, threshold, anomaly_scores, anomalies) ==
    [err |-> "none",
     total_records |-> Len(d.index),
     anomaly_count |-> Len(anomalies),
     anomaly_rate |-> IF Len(d.index) > 0 THEN Num(Len(anomalies), Len(d.index))
                      ELSE Whole(0),
     method |-> method,
     threshold |-> threshold,
     score_stats |-> ScoreStats(Ser([i \in 1..Len(anomalies) |-> anomalies[i].label],
                                    [i \in 1..Len(anomalies) |-> anomalies[i].anomaly_score])),
     anomalies |-> anomalies,
     scores |-> anomaly_scores]

\* lines 308-323: the results of one run
AnalyzeResults(d, method, threshold, anomaly_scores, anomalies) ==
    [err |-> "none",
     total_records |-> Len(d.index),
     anomaly_count |-> Len(anomalies),
     anomaly_rate |-> IF Len(d.index) > 0 THEN Num(Len(anomalies), Len(d.index))
                      ELSE Whole(0),
     method |-> method,
     threshold |-> threshold,
     score_stats |-> ScoreStats(anomaly_scores),
     anomalies |-> anomalies,
     scores |-> anomaly_scores]

\* lines 303-305: the flagged rows of the scores a detector returned
AnalyzeScored(d, method, threshold, scored) ==
    IF scored.err # "none" THEN AnalyzeFailed(scored.err, method, threshold)
    ELSE AnalyzeResults(d, method, threshold, scored.val, Flagged(scored.val, threshold))

AnalyzeAnomalies(d, method, threshold) ==
    IF Len(NumericCols(d)) = 0 THEN AnalyzeFailed("ValueError", method, threshold)
    ELSE AnalyzeScored(d, method, threshold, AnalyzeScores(d, method))

----------------------------------------------------------------------------
(* generate_report: the records listed and the advice given *)

\* the ranking had it kept the last of equal scores (keep='last')
NLargestKeepLast(rows, k) ==
    LET rank(p) ==
            Cardinality({q \in 1..Len(rows) :
                \/ Gt(rows[q].anomaly_score, rows[p].anomaly_score)
                \/ FEq(rows[q].anomaly_score, rows[p].anomaly_score) /\ q > p})
    IN [i \in 1..Min2(k, Len(rows)) |-> rows[CHOOSE p \in 1..Len(rows) : rank(p) = i - 1]]

\* DataFrame.nlargest(k, 'anomaly_score'): the k highest scores, descending,
\* equal scores in the order of the frame (keep='first')
NLargest(rows, k) ==
    LET rank(p) ==
            Cardinality({q \in 1..Len(rows) :
                \/ Gt(rows[q].anomaly_score, rows[p].anomaly_score)
                \/ FEq(rows[q].anomaly_score, rows[p].anomaly_score) /\ q < p})
    IN [i \in 1..Min2(k, Len(rows)) |-> rows[CHOOSE p \in 1..Len(rows) : rank(p) = i - 1]]

GenerateReport(res) ==
    [listed |-> IF Len(res.anomalies) > 0 THEN NLargest(res.anomalies, TopN) ELSE <<>>,
     advice |-> IF Gt(res.anomaly_rate, Num(1, 10)) THEN "high"
                ELSE IF Gt(res.anomaly_rate, Num(5, 100)) THEN "medium"
                ELSE "normal"]

----------------------------------------------------------------------------
(* The datasets analysed: up to two numeric columns "amount" and "stake",   *)
(* optionally a non-numeric "bet_date" column.  A column is a free head    *)
(* (two cells of amount, one of stake) followed by a pad of zeros.          *)

Cells == {NaN} \cup {Whole(v) : v \in 0..MaxVal}

Lengths == {0, 1, 2} \cup ((MinSeries - 1)..(MinSeries + MaxExtra))

Padded(head, pad, len) == [i \in 1..len |-> IF i <= Len(head) THEN head[i] ELSE pad]

AmountHeads == {<<x, y>> : x \in Cells, y \in Cells}

StakeHeads == {<<x>> : x \in {NaN, Whole(0), Whole(MaxVal)}}

NumColumn(nm, head, len) == [name |-> nm, numeric |-> TRUE, data |-> Padded(head, Whole(0), len)]

\* a date column whose order is the reverse of the row order
DateColumn(len) ==
    [name |-> "bet_date", numeric |-> FALSE, data |-> [i \in 1..len |-> Whole(len + 1 - i)]]

Frame(len, columns) == [index |-> [i \in 1..len |-> i], cols |-> columns]

NumericParts(len) ==
    {<<>>}
    \cup {<<NumColumn("amount", h, len)>> : h \in AmountHeads}
    \cup {<<NumColumn("amount", h, len), NumColumn("stake", g, len)>> :
              h \in AmountHeads, g \in StakeHeads}

FramesOf(len) ==
    UNION {{Frame(len, part), Frame(len, part \o <<DateColumn(len)>>)} :
              part \in NumericParts(len)}

Datasets == UNION {FramesOf(len) : len \in Lengths}

----------------------------------------------------------------------------
(* State machine: one call of the engine on a dataset *)

Idle == [op |-> "none", args |-> <<>>, res |-> Raise("none")]

NoReport == [listed |-> <<>>, advice |-> "none"]

Init ==
    /\ df \in Datasets
    /\ pc = "idle"
    /\ out = Idle
    /\ results = NoResults
    /\ report = NoReport

CallZscore ==
    /\ pc = "idle"
    /\ \E c \in 1..Len(df.cols) :
        /\ df.cols[c].numeric
        /\ out' = [op |-> "zscore", args |-> <<c>>,
                   res |-> Ok(DetectZscoreAnomalies(Col(df, c), ZThreshold))]
    /\ pc' = "done"
    /\ UNCHANGED <<df, results, report>>

CallIqr ==
    /\ pc = "idle"
    /\ \E c \in 1..Len(df.cols) :
        /\ df.cols[c].numeric
        /\ out' = [op |-> "iqr", args |-> <<c>>, res |-> DetectIqrAnomalies(Col(df, c), IqrK)]
    /\ pc' = "done"
    /\ UNCHANGED <<df, results, report>>

CallIsolationForest ==
    /\ pc = "idle"
    /\ out' = [op |-> "isolation_forest", args |-> <<>>,
               res |-> DetectIsolationForestAnomalies(df)]
    /\ pc' = "done"
    /\ UNCHANGED <<df, results, report>>

CallTimeSeries ==
    /\ pc = "idle"
    /\ \E c \in 1..Len(df.cols) :
        /\ df.cols[c].numeric
        /\ out' = [op |-> "time_series", args |-> <<c>>,
                   res |-> Ok(DetectTimeSeriesAnomalies(Col(df, c), Window))]
    /\ pc' = "done"
    /\ UNCHANGED <<df, results, report>>

\* the configurations the ensemble is called with
MethodLists ==
    {<<"zscore">>, <<"iqr">>, <<"isolation_forest">>,
     <<"zscore", "iqr">>, <<"zscore", "isolation_forest">>, <<"iqr", "isolation_forest">>,
     <<"zscore", "iqr", "isolation_forest">>}

\* every method of ms at the same weight w (tenths)
Uniform(ms, w) == [m \in {ms[i] : i \in 1..Len(ms)} |-> w]

\* weight tables whose weights sum to zero: all zero, and -0.5 against 0.5
NonPositiveTables ==
    {[zscore |-> 0, time_series |-> 0], [zscore |-> 0 - 5, time_series |-> 5]}

\* a weight of -0.5 is among them: no line of the function looks at the sign
EnsembleConfigs ==
    {[methods |-> None, weights |-> None]}
    \cup {[methods |-> Some(ms), weights |-> Some(Uniform(ms, 10 \div Len(ms)))] :
              ms \in {m \in MethodLists : Len(m) <= 2}}
    \cup {[methods |-> Some(ms), weights |-> None] : ms \in {m \in MethodLists : Len(m) = 1}}
    \cup {[methods |-> Some(<<"zscore">>), weights |-> Some(Uniform(<<"zscore">>, 0 - 5))]}
    \cup {[methods |-> Some(<<"zscore">>), weights |-> Some(w)] : w \in NonPositiveTables}

CallEnsemble ==
    /\ pc = "idle"
    /\ \E cfg \in EnsembleConfigs :
        out' = [op |-> "ensemble", args |-> <<cfg.methods, cfg.weights>>,
                res |-> EnsembleAnomalyDetection(df, cfg.methods, cfg.weights)]
    /\ df' = DfAfterEnsemble(df)
    /\ pc' = "done"
    /\ UNCHANGED <<results, report>>

\* the names main() accepts (choices, lines 402-404)
MethodNames == {"zscore", "iqr", "isolation_forest", "ensemble"}

\* the names analyze_anomalies is called with: those, and one that is none of them
Methods == MethodNames \cup {"lof"}

\* thresholds 0, 0.5, 0.7 (the default), 1 and, outside the unit interval, 1.2
Thresholds == {Num(t, 10) : t \in {0, 5, 7, 10, 12}}

\* analyze_anomalies, then (as main() does) generate_report on what it returned
\* one run of analyze_anomalies at every threshold: scored is what the method's
\* detector returns for the frame, which the threshold has no part in
AnalyzeAtSome(m, scored) ==
    \E t \in Thresholds :
        /\ results' = IF Len(NumericCols(df)) = 0 THEN AnalyzeFailed("ValueError", m, t)
                       ELSE AnalyzeScored(df, m, t, scored)
        /\ df' = DfAfterAnalyze(df, m)
        /\ pc' = IF results'.err = "none" THEN "analyzed" ELSE "done"

CallAnalyze ==
    /\ pc = "idle"
    /\ \E m \in Methods : AnalyzeAtSome(m, AnalyzeScores(df, m))
    /\ UNCHANGED <<out, report>>

CallGenerateReport ==
    /\ pc = "analyzed"
    /\ report' = GenerateReport(results)
    /\ pc' = "done"
    /\ UNCHANGED <<df, out, results>>

Next ==
    \/ CallZscore
    \/ CallIqr
    \/ CallIsolationForest
    \/ CallTimeSeries
    \/ CallEnsemble
    \/ CallAnalyze
    \/ CallGenerateReport

Spec == Init /\ [][Next]_vars

----------------------------------------------------------------------------
(* The rolling detector on a series with one spike: SpikeLen points at      *)
(* Baseline, one point (not the first) at a spike value.                    *)

SpikeVals == (MaxSpike - 3)..MaxSpike

SpikePositions == 2..SpikeLen

SpikeColumn(pos, v) ==
    [name |-> "amount", numeric |-> TRUE,
     data |-> [i \in 1..SpikeLen |-> IF i = pos THEN Whole(v) ELSE Whole(Baseline)]]

SpikeDatasets ==
    {Frame(SpikeLen, <<SpikeColumn(pos, v)>>) : pos \in SpikePositions, v \in SpikeVals}

InitSpike ==
    /\ df \in SpikeDatasets
    /\ pc = "idle"
    /\ out = Idle
    /\ results = NoResults
    /\ report = NoReport

NextSpike == CallTimeSeries

SpecSpike == InitSpike /\ [][NextSpike]_vars

----------------------------------------------------------------------------
(* Properties *)

InUnit(x) == ~IsNaN(x) /\ 0 <= x.n /\ x.n <= x.d

Returned == pc = "done" /\ out.op # "none" /\ out.res.err = "none"

Analyzed == pc \in {"analyzed", "done"} /\ results.method # "none"

Reported == Analyzed /\ results.err = "none"

MethodsOf(o) == IF o.args[1] = None THEN DefaultMethods ELSE o.args[1][1]

WeightsOf(o) == IF o.args[2] = None THEN DefaultWeights ELSE o.args[2][1]

\* the entry has a value for the record labelled l
HasValue(d, term, l) ==
    IF term.array THEN \E k \in 1..SLen(term.res.val) : k <= Len(d.index) /\ d.index[k] = l
    ELSE HasLabel(term.res.val, l)

ValueAt(d, term, l) == AtLabel(Aligned(d, term), l)

\* sum of weight * score, and sum of weight, over the entries among ts that have
\* a value for the record labelled l
PresentSum(d, terms, ts, methods, weights, l) ==
    LET on == SortedSeq({t \in ts : HasValue(d, terms[t], l)})
    IN [num |-> SumSeq([i \in 1..Len(on) |->
                           ValueAt(d, terms[on[i]], l).n
                           * WeightOf(terms[on[i]].method, methods, weights)]),
        den |-> SumSeq([i \in 1..Len(on) |->
                           WeightOf(terms[on[i]].method, methods, weights)])]

NumericCount == Len(NumericCols(df))

OneNumericColumn == NumericCount = 1 /\ Len(df.cols) = 1

ConstantColumn(c) ==
    /\ Len(df.index) >= 1
    /\ \A p \in 1..Len(df.index) :
        ~IsNaN(df.cols[c].data[p]) /\ df.cols[c].data[p] = df.cols[c].data[1]

\* C1: every value of every detector's score vector and of the combined-score
\* vector lies in [0,1] and is never NaN, missing values and single-record
\* datasets included.
C1_ScoresInUnitInterval ==
    Returned => \A p \in 1..SLen(out.res.val) : InUnit(out.res.val.values[p])

\* C2: the combined score of a record is the weighted sum of the scores of the
\* detectors that produced a value for it, divided by the sum of the weights of
\* those same detectors (0 when there is none).
C2_RenormalisedOverPresent ==
    (Returned /\ out.op = "ensemble") =>
        LET terms == EnsembleTerms(df, MethodsOf(out))
        IN \A k \in 1..Len(df.index) :
            LET ps == PresentSum(df, terms, 1..Len(terms), MethodsOf(out), WeightsOf(out),
                                 df.index[k])
            IN IF ps.den > 0
               THEN FEq(out.res.val.values[k], Num(ps.num, Scale * ps.den))
               ELSE FEq(out.res.val.values[k], Zero)

\* C3: detect_isolation_forest_anomalies returns a score vector in which every
\* record left out of the fit for a missing numeric feature is absent, not zero.
C3_ExcludedRowsAbsent ==
    (pc = "done" /\ out.op = "isolation_forest" /\ NumericCount > 0
        /\ Len(CompleteRows(df)) > 0) =>
        /\ out.res.err = "none"
        /\ \A k \in 1..Len(df.index) :
            (\A i \in 1..Len(CompleteRows(df)) : CompleteRows(df)[i] # df.index[k])
                => ~HasLabel(out.res.val, df.index[k])

\* C4: with two detectors at weight 0.5 each, of which the second yields no
\* value for any record, the combined score of a record is the first detector's
\* score for it.
C4_AbsentDetectorNoDilution ==
    (Returned /\ out.op = "ensemble" /\ out.args[1] # None /\ out.args[2] # None
        /\ Len(MethodsOf(out)) = 2 /\ WeightsOf(out) = Uniform(MethodsOf(out), 5)) =>
        LET terms == EnsembleTerms(df, MethodsOf(out))
            first == {t \in 1..Len(terms) : terms[t].method = MethodsOf(out)[1]}
            second == {t \in 1..Len(terms) : terms[t].method = MethodsOf(out)[2]}
        IN (second = {} /\ first = 1..Len(terms)) =>
            \A k \in 1..Len(df.index) :
                \A t \in first :
                    (\A u \in first : HasValue(df, terms[u], df.index[k]) <=> u = t)
                        => FEq(out.res.val.values[k], ValueAt(df, terms[t], df.index[k]))

\* the score vector the detector named m gives for the only numeric column
DetectorAlone(m) ==
    IF m = "zscore" THEN Ok(DetectZscoreAnomalies(Col(df, NumericCols(df)[1]), ZThreshold))
    ELSE IF m = "iqr" THEN DetectIqrAnomalies(Col(df, NumericCols(df)[1]), IqrK)
    ELSE DetectIsolationForestAnomalies(df)

\* C5: the ensemble run with a single detector at weight 1.0 returns, for every
\* record, exactly that detector's normalized score.
C5_IdentityLaw ==
    (pc = "done" /\ out.op = "ensemble" /\ out.args[1] # None /\ out.args[2] # None
        /\ Len(MethodsOf(out)) = 1 /\ WeightsOf(out) = Uniform(MethodsOf(out), 10)
        /\ OneNumericColumn /\ Len(df.index) >= 2
        /\ Len(CompleteRows(df)) = Len(df.index)) =>
        LET alone == DetectorAlone(MethodsOf(out)[1])
        IN /\ out.res.err = "none"
           /\ alone.err = "none"
           /\ \A k \in 1..Len(df.index) :
                FEq(out.res.val.values[k], alone.val.values[k])

LabelsOf(rows) == {rows[i].label : i \in 1..Len(rows)}

FlagsAmong(res, lower) ==
    /\ lower.err = "none"
    /\ res.anomaly_count <= lower.anomaly_count
    /\ LabelsOf(res.anomalies) \subseteq LabelsOf(lower.anomalies)

\* the run of analyze_anomalies at threshold t, given the scores of its detector
AnalyzeAt(d, method, t, scored) ==
    IF Len(NumericCols(d)) = 0 THEN AnalyzeAnomalies(d, method, t)
    ELSE AnalyzeScored(d, method, t, scored)

MonotoneBelow(d, res, scored) ==
    \A t \in Thresholds :
        Ge(res.threshold, t) => FlagsAmong(res, AnalyzeAt(d, res.method, t, scored))

\* C6: raising the threshold never increases anomaly_count, and the records
\* flagged at the higher threshold are among those flagged at the lower one.
C6_ThresholdMonotone ==
    Reported => MonotoneBelow(df, results, AnalyzeScores(df, results.method))

\* a report at a threshold above another one that flags strictly more records
C6_Witness ==
    /\ Reported
    /\ results.anomaly_count >= 1
    /\ \E t \in Thresholds :
        /\ Gt(results.threshold, t)
        /\ AnalyzeAnomalies(df, results.method, t).anomaly_count > results.anomaly_count

\* C7: the flagged records are exactly those whose score is >= the threshold,
\* each carrying its own score; anomaly_count is their number, total_records the
\* length of the dataset and anomaly_rate their quotient.
C7_FlagsExactlyAtOrAbove ==
    Reported =>
        /\ results.scores.index = df.index
        /\ LabelsOf(results.anomalies)
            = {df.index[p] : p \in {q \in 1..Len(df.index) :
                                       Ge(results.scores.values[q], results.threshold)}}
        /\ \A i \in 1..Len(results.anomalies) :
            results.anomalies[i].anomaly_score
                = AtLabel(results.scores, results.anomalies[i].label)
        /\ results.anomaly_count = Cardinality(LabelsOf(results.anomalies))
        /\ results.anomaly_count = Len(results.anomalies)
        /\ results.total_records = Len(df.index)
        /\ Len(df.index) > 0 =>
            results.anomaly_rate.n * results.total_records
                = results.anomaly_count * results.anomaly_rate.d

\* a report in which a record scoring exactly the threshold is flagged and
\* another record is not
C7_Witness ==
    /\ Reported
    /\ \E i \in 1..Len(results.anomalies) :
        FEq(results.anomalies[i].anomaly_score, results.threshold)
    /\ results.anomaly_count < results.total_records
    /\ Gt(results.threshold, Zero)

C9_ConstantFeatureScoresZero ==
    (pc = "done" /\ out.op \in {"zscore", "iqr"} /\ ConstantColumn(out.args[1])) =>
        /\ out.res.err = "none"
        /\ \A p \in 1..SLen(out.res.val) : FEq(out.res.val.values[p], Zero)

\* C10: for a dataset whose only numeric feature is constant, every score is 0
\* and analyze_anomalies reports anomaly_count = 0 at any threshold in [0,1].
C10_ConstantDatasetFlagsNothing ==
    (Analyzed /\ NumericCount = 1 /\ ConstantColumn(NumericCols(df)[1])) =>
        /\ results.err = "none"
        /\ \A p \in 1..SLen(results.scores) : FEq(results.scores.values[p], Zero)
        /\ results.anomaly_count = 0

\* the column has fewer than two present values
FewPresent(c) == Cardinality(PresentPos(Col(df, c))) < 2

DetectorOps == {"zscore", "iqr", "isolation_forest", "time_series"}

\* C11: every detector, on any input that has a numeric feature (constant
\* column, zero IQR, fewer than two present values, no complete row included),
\* returns without raising a score vector that covers every record it was
\* given, all zeros where it cannot compute meaningful scores.
C11_DetectorsNeverRaise ==
    (pc = "done" /\ out.op \in DetectorOps /\ NumericCount > 0) =>
        /\ out.res.err = "none"
        /\ out.res.val.index = df.index
        /\ (out.op \in {"zscore", "iqr"} /\ FewPresent(out.args[1])) =>
            \A p \in 1..SLen(out.res.val) : FEq(out.res.val.values[p], Zero)
        /\ (out.op = "isolation_forest" /\ Len(CompleteRows(df)) = 0) =>
            \A p \in 1..SLen(out.res.val) : FEq(out.res.val.values[p], Zero)

\* C12: in ensemble_anomaly_detection the failure of a single detector never
\* aborts the run: on a dataset with a numeric feature the ensemble returns a
\* combined-score vector, one score per record.
C12_EnsembleSurvivesFailure ==
    (pc = "done" /\ out.op = "ensemble" /\ NumericCount > 0 /\ Len(MethodsOf(out)) > 0) =>
        /\ out.res.err = "none"
        /\ out.res.val.index = df.index

\* the entry carries, for every record, the score its detector computed for
\* that record (0 where it computed none)
JoinedByLabel(d, term) == Aligned(d, term) = Reindex(term.res.val, d.index, Zero)

\* C13: a record's index is the sole join key: every per-detector score that
\* enters the combined score of a record was computed from that record's own
\* values, the time-series detector (run on the sorted frame, missing values
\* dropped) included.
C13_IndexIsJoinKey ==
    (Returned /\ out.op = "ensemble") =>
        \A t \in 1..Len(EnsembleTerms(df, MethodsOf(out))) :
            JoinedByLabel(df, EnsembleTerms(df, MethodsOf(out))[t])

\* C14: no operation of the engine changes the caller's dataset: rows, their
\* order, their values and the columns are after a call what they were before
\* it (sorting, missing-value removal and the added anomaly_score column act on
\* copies).
C14_DatasetNotMutated == [][df' = df]_vars

\* an ensemble run returned for a frame whose time column would reorder the
\* rows, and the frame is still in its original order
C14_Witness ==
    /\ pc = "done"
    /\ out.op = "ensemble"
    /\ Len(df.index) >= MinSeries
    /\ Len(TimeCols(df)) > 0
    /\ NumericCount > 0
    /\ SortValues(df, TimeCols(df)[1]) # df
    /\ df \in Datasets

SameStats(res, other) ==
    /\ other.err = "none"
    /\ other.score_stats = res.score_stats
    /\ other.scores = res.scores

SameStatsAtEvery(d, res, scored) ==
    \A t \in Thresholds : SameStats(res, AnalyzeAt(d, res.method, t, scored))

\* C15: the summary statistics (mean, std, min, max, median) and the score
\* vector in the result of analyze_anomalies are taken over the scores of all
\* records and are the same at every threshold; only anomaly_count,
\* anomaly_rate and the flagged list vary with it.
C15_StatsIndependentOfThreshold ==
    Reported =>
        /\ results.scores.index = df.index
        /\ results.score_stats = ScoreStats(results.scores)
        /\ SameStatsAtEvery(df, results, AnalyzeScores(df, results.method))

\* a report that flags some records but not all, whose scores differ, and
\* which flags another number of records at another threshold
C15_Witness ==
    /\ Reported
    /\ 0 < results.anomaly_count
    /\ results.anomaly_count < results.total_records
    /\ Gt(results.score_stats.max, results.score_stats.min)
    /\ ~IsNaN(results.score_stats.std)
    /\ \E t \in Thresholds :
        AnalyzeAnomalies(df, results.method, t).anomaly_count # results.anomaly_count

\* C16: analyze_anomalies aborts with an error when the dataset has no record
\* or no numeric feature; it returns no report in those cases.
C16_EmptyOrNonNumericAborts ==
    (Analyzed /\ (Len(df.index) = 0 \/ NumericCount = 0)) => results.err # "none"

\* a weight of the call is negative
NegativeWeight(o) == \E m \in DOMAIN WeightsOf(o) : WeightsOf(o)[m] < 0

\* C17: an invalid configuration is rejected before any detector runs: an
\* unknown method name, a threshold outside [0,1] or a negative weight ends
\* the call with an error and no scores are computed.
C17_InvalidConfigRejected ==
    /\ (Analyzed /\ NumericCount > 0
            /\ (results.method \notin MethodNames \/ ~InUnit(results.threshold))) =>
        results.err # "none"
    /\ (pc = "done" /\ out.op = "ensemble" /\ NegativeWeight(out)) =>
        out.res.err # "none"

\* no detector of the call produced a score vector
NoDetectorScored(o) ==
    \A t \in 1..Len(EnsembleTerms(df, MethodsOf(o))) :
        EnsembleTerms(df, MethodsOf(o))[t].res.err # "none"

\* no entry of the call has a value for the record labelled l
NoValueFor(o, l) ==
    \A t \in 1..Len(EnsembleTerms(df, MethodsOf(o))) :
        ~HasValue(df, EnsembleTerms(df, MethodsOf(o))[t], l)

\* C18: a record for which no detector produced a value gets combined score 0
\* and this is not an error: when no detector produced any score at all,
\* ensemble_anomaly_detection returns one 0 per record rather than raising.
C18_NoScoreMeansZero ==
    (pc = "done" /\ out.op = "ensemble" /\ Len(MethodsOf(out)) > 0) =>
        /\ NoDetectorScored(out) => out.res = Ok(ConstSer(df.index, Zero))
        /\ out.res.err = "none" =>
            \A k \in 1..Len(df.index) :
                NoValueFor(out, df.index[k]) => FEq(out.res.val.values[k], Zero)

\* the orders of the elements of a finite set
RECURSIVE Perms(_)
Perms(S) ==
    IF S = {} THEN {<<>>}
    ELSE UNION {{<<x>> \o p : p \in Perms(S \ {x})} : x \in S}

\* the ensemble gives res whatever the order in which the entries were made
SameInAnyOrder(d, methods, weights, terms, res) ==
    \A p \in Perms(1..Len(terms)) :
        EnsembleOf(d, methods, weights, [i \in 1..Len(terms) |-> terms[p[i]]]) = res

\* C19: detectors share no mutable state: the outcome of
\* ensemble_anomaly_detection is the same for every order in which the
\* per-column and whole-dataset detectors are executed; each detector only
\* reads the dataset and the combiner is one reduction over their vectors.
C19_OrderIndependent ==
    (pc = "done" /\ out.op = "ensemble") =>
        SameInAnyOrder(df, MethodsOf(out), WeightsOf(out),
                       EnsembleTerms(df, MethodsOf(out)), out.res)

\* two entries differ for some record
EntriesDiffer(d, terms) ==
    \E t \in 1..Len(terms) : \E u \in 1..Len(terms) :
        /\ Aligned(d, terms[t]) # Aligned(d, terms[u])
        /\ terms[t].method # terms[u].method

\* an ensemble returned a vector combined from at least three entries, of
\* different detectors, that disagree on some record
C19_Witness ==
    /\ Returned
    /\ out.op = "ensemble"
    /\ Len(EnsembleTerms(df, MethodsOf(out))) >= 3
    /\ EntriesDiffer(df, EnsembleTerms(df, MethodsOf(out)))

\* the entries made by the detectors named in methods
OfMethods(terms, methods) ==
    SelectSeq(terms, LAMBDA term : InList(term.method, methods))

MethodsIn(terms) == {terms[t].method : t \in 1..Len(terms)}

\* the call used the default methods and weights on a frame with a numeric
\* column long enough to be scored
DefaultCallOnScorableFrame ==
    /\ pc = "done"
    /\ out.op = "ensemble"
    /\ out.args = <<None, None>>
    /\ \E c \in 1..Len(df.cols) :
        df.cols[c].numeric /\ Cardinality(PresentPos(Col(df, c))) >= MinSeries

\* C20: only the detectors of the supplied subset contribute to the combined
\* score; with no methods and no weights supplied these are exactly z-score,
\* IQR and isolation forest, at weights 0.3, 0.3 and 0.4, and the time-series
\* detector contributes neither a term nor a weight, whatever the column names.
C20_OnlySuppliedDetectors ==
    /\ (pc = "done" /\ out.op = "ensemble") =>
        out.res = EnsembleOf(df, MethodsOf(out), WeightsOf(out),
                             OfMethods(EnsembleTerms(df, MethodsOf(out)), MethodsOf(out)))
    /\ DefaultCallOnScorableFrame =>
        /\ out.res.err = "none"
        /\ MethodsIn(EnsembleTerms(df, DefaultMethods))
            = {"zscore", "iqr", "isolation_forest"}

\* min(distance / (k * IQR), 1) for the value at position p, the distance taken
\* by an explicit branch: below the lower bound, above the upper bound, inside
IqrScoreByBranch(series, k, p) ==
    LET q1 == Quantile4(series, 1)
        q3 == Quantile4(series, 3)
        iqr4 == q3.n - q1.n
        den == 4 * k.d
        lower == q1.n * k.d - k.n * iqr4
        upper == q3.n * k.d + k.n * iqr4
        x == den * series.values[p].n
    IN IF iqr4 = 0 THEN Zero
       ELSE IF x < lower THEN RatioClipped(lower - x, k.n * iqr4)
       ELSE IF x > upper THEN RatioClipped(x - upper, k.n * iqr4)
       ELSE Zero

\* C21: detect_iqr_anomalies returns, for each value x, min(distance/(k*IQR), 1)
\* with distance = lower - x below the lower bound, x - upper above the upper
\* bound and 0 between the bounds, so a value within the bounds scores 0.
C21_IqrScoreFormula ==
    (pc = "done" /\ out.op = "iqr"
        /\ PresentPos(Col(df, out.args[1])) = 1..Len(df.index) /\ Len(df.index) >= 1) =>
        /\ out.res.err = "none"
        /\ \A p \in 1..SLen(out.res.val) :
            FEq(out.res.val.values[p], IqrScoreByBranch(Col(df, out.args[1]), IqrK, p))

\* score is min(|x - mean| / std / T, 1) to the precision Scale:
\* with a/b = ((x - mean) / (std * T))^2, it is 1 exactly when a >= b and
\* otherwise the n/Scale with n^2 * b <= Scale^2 * a < (n+1)^2 * b
IsClippedRoot(score, a, b) ==
    /\ ~IsNaN(score)
    /\ score.d = Scale
    /\ (score.n = Scale) <=> (a >= b)
    /\ score.n < Scale =>
        /\ score.n * score.n * b <= Scale * Scale * a
        /\ Scale * Scale * a < (score.n + 1) * (score.n + 1) * b

\* scores is what the claim gives for the present values xs of series
ZscoreAsClaimed(series, threshold, xs, scores) ==
    \A p \in PresentPos(series) :
        /\ IsClippedRoot(scores.values[p],
                         (Len(xs) * series.values[p].n - SumSeq(xs))
                            * (Len(xs) * series.values[p].n - SumSeq(xs)) * (Len(xs) - 1),
                         threshold * threshold * Len(xs) * SpreadOf(xs))
        /\ \A q \in PresentPos(series) :
            Abs(Len(xs) * series.values[p].n - SumSeq(xs))
                = Abs(Len(xs) * series.values[q].n - SumSeq(xs))
                => scores.values[p] = scores.values[q]

\* the column has at least two present values, not all equal (std > 0)
Spread(c) ==
    /\ ~FewPresent(c)
    /\ SpreadOf(PresentVals(Col(df, c))) > 0

\* C22: detect_zscore_anomalies returns for each record with value x the score
\* min(|x - mean| / std / T, 1), mean and std over the present values of the
\* feature and T = 3; the score is 1 exactly when |x - mean| >= T * std, and
\* records at equal distance from the mean get equal scores.
C22_ZscoreFormula ==
    (pc = "done" /\ out.op = "zscore" /\ Spread(out.args[1])) =>
        /\ out.res.err = "none"
        /\ out.res.val.index = df.index
        /\ ZscoreAsClaimed(Col(df, out.args[1]), ZThreshold,
                           PresentVals(Col(df, out.args[1])), out.res.val)

\* a z-score vector with a record at the clip value 1 and a record strictly
\* between 0 and 1
C22_Witness ==
    /\ pc = "done"
    /\ out.op = "zscore"
    /\ Spread(out.args[1])
    /\ \E p \in 1..SLen(out.res.val) : FEq(out.res.val.values[p], Num(1, 1))
    /\ \E p \in 1..SLen(out.res.val) :
        Gt(out.res.val.values[p], Zero) /\ Gt(Num(1, 1), out.res.val.values[p])

\* the scores are a min-max rescaling of a batch: all 0, or reaching from 0 to 1
RescaledBatch(scores) ==
    /\ \A p \in 1..SLen(scores) : InUnit(scores.values[p])
    /\ \/ \A p \in 1..SLen(scores) : FEq(scores.values[p], Zero)
       \/ /\ \E p \in 1..SLen(scores) : FEq(scores.values[p], Num(1, 1))
          /\ \E p \in 1..SLen(scores) : FEq(scores.values[p], Zero)

\* C23: detect_isolation_forest_anomalies rescales the raw separation values r
\* of the batch by 1 - (r - min) / (max - min): the lowest raw value scores 1,
\* the highest 0, and when all raw values are equal every score is 0.
C23_IsolationRescaled ==
    (pc = "done" /\ out.op = "isolation_forest" /\ Len(CompleteRows(df)) >= 2) =>
        /\ out.res.err = "none"
        /\ RescaledBatch(out.res.val)

\* the record after the 15 first ones (index 15 of a series numbered from 0)
SpikeIndex == 15 + 1

\* the positions of the series that are not at the baseline
OffBaseline(d) == {p \in 1..Len(d.index) : d.cols[1].data[p] # Whole(Baseline)}

\* the record at p scores exactly 1 and its neighbours score below 0.5
SpikeStandsOut(scores, p) ==
    /\ FEq(scores.values[p], Num(1, 1))
    /\ \A q \in {p - 1, p + 1} \cap (1..SLen(scores)) : Gt(Num(1, 2), scores.values[q])

\* C24: for a 30-point series at the baseline 100 with one spike of 1000 at
\* index 15, detect_time_series_anomalies with the centred window of 20 gives
\* index 15 the score exactly 1.0 and indices 14 and 16 scores below 0.5 (and
\* so for every place of the spike but the first point).
C24_SpikeScenario ==
    (pc = "done" /\ out.op = "time_series") =>
        /\ out.res.err = "none"
        /\ out.res.val.index = df.index
        /\ \A p \in OffBaseline(df) : SpikeStandsOut(out.res.val, p)

\* the scores of the series whose spike, the highest one, is at index 15
C24_Witness ==
    /\ pc = "done"
    /\ out.op = "time_series"
    /\ df = Frame(SpikeLen, <<SpikeColumn(SpikeIndex, MaxSpike)>>)
    /\ OffBaseline(df) = {SpikeIndex}
    /\ Gt(out.res.val.values[SpikeIndex - 1], Zero)

\* the present value at p differs from the mean of the present values of its
\* (possibly partial) window
OffWindowMean(series, window, p) ==
    /\ ~IsNaN(series.values[p])
    /\ Cardinality(WindowPos(series, window, p) \cap PresentPos(series)) * series.values[p].n
        # SumSeq(PresentVals(Ser([q \in 1..SLen(series) |-> q],
                                 [q \in 1..SLen(series) |->
                                     IF q \in WindowPos(series, window, p)
                                     THEN series.values[q] ELSE NaN])))

\* scores covers series: one score in [0,1] per record, a positive one for a
\* record off the mean of its window, edge records included
CoversEveryRecord(series, window, scores) ==
    /\ scores.index = series.index
    /\ \A p \in 1..SLen(scores) :
        /\ InUnit(scores.values[p])
        /\ OffWindowMean(series, window, p) => Gt(scores.values[p], Zero)

\* C25: detect_time_series_anomalies returns a score for every record of the
\* series, edge records included (they use the partial window available);
\* where the rolling standard deviation is zero or undefined a small epsilon
\* stands for it, so a constant series and a series of one record score 0
\* everywhere, never NaN, absent or an error.
C25_RollingCoversEveryRecord ==
    (pc = "done" /\ out.op = "time_series") =>
        /\ out.res.err = "none"
        /\ CoversEveryRecord(Col(df, out.args[1]), Window, out.res.val)
        /\ (ConstantColumn(out.args[1]) \/ Len(df.index) = 1) =>
            \A p \in 1..SLen(out.res.val) : FEq(out.res.val.values[p], Zero)

\* the scores of a constant series long enough for the ensemble
C25_Witness ==
    /\ pc = "done"
    /\ out.op = "time_series"
    /\ ConstantColumn(out.args[1])
    /\ Len(df.index) >= MinSeries
    /\ SLen(out.res.val) = Len(df.index)

\* the numeric columns with at least MinSeries present values
EligibleCols(d) ==
    {c \in 1..Len(d.cols) :
        d.cols[c].numeric /\ Cardinality(PresentPos(Col(d, c))) >= MinSeries}

\* the entries are one z-score and one IQR entry per eligible column and one
\* isolation-forest entry, at the weights 0.3, 0.3 and 0.4
DefaultEntries(d, terms) ==
    /\ \A c \in EligibleCols(d) : \A m \in {"zscore", "iqr"} :
        Cardinality({t \in 1..Len(terms) : terms[t].col = c /\ terms[t].method = m}) = 1
    /\ Cardinality({t \in 1..Len(terms) : terms[t].method = "isolation_forest"}) = 1
    /\ Len(terms) = 2 * Cardinality(EligibleCols(d)) + 1
    /\ SumSeq([t \in 1..Len(terms) |->
                  WeightOf(terms[t].method, DefaultMethods, DefaultWeights)])
        = (6 * Cardinality(EligibleCols(d)) + 4) * Len(DefaultMethods)

\* C26: every (numeric column, per-feature method) pair enters the weighted
\* average as its own term at the method's full weight and isolation forest
\* enters once: with m eligible columns and the default weights the combined
\* score is (0.3 * sum of z-scores + 0.3 * sum of IQR scores + 0.4 * isolation
\* score) / (0.6 * m + 0.4).
C26_PerColumnWeighting ==
    (DefaultCallOnScorableFrame /\ Len(TimeCols(df)) = 0
        /\ Len(CompleteRows(df)) = Len(df.index)) =>
        /\ out.res.err = "none"
        /\ DefaultEntries(df, EnsembleTerms(df, DefaultMethods))

\* every per-column entry belongs to a column with at least MinSeries values
OnlyEligibleColumns(d, terms) ==
    \A t \in 1..Len(terms) :
        terms[t].method \in {"zscore", "iqr", "time_series"} => terms[t].col \in EligibleCols(d)

\* C27: a numeric column with fewer than 10 non-missing values contributes no
\* z-score, IQR or time-series term; for a dataset of fewer than 10 records the
\* combined score is left to the isolation forest alone, and is 0 for every
\* record when that detector is not selected or fails (as it does).
C27_ShortColumnsSkipped ==
    (pc = "done" /\ out.op = "ensemble") =>
        /\ OnlyEligibleColumns(df, EnsembleTerms(df, MethodsOf(out)))
        /\ Len(df.index) < MinSeries => out.res = Ok(ConstSer(df.index, Zero))

\* an ensemble with the z-score detector returned for a frame of fewer than
\* 10 records whose values differ
C27_Witness ==
    /\ Returned
    /\ out.op = "ensemble"
    /\ InList("zscore", MethodsOf(out))
    /\ Len(df.index) >= 2
    /\ Len(df.index) < MinSeries
    /\ NumericCount > 0
    /\ ~ConstantColumn(NumericCols(df)[1])
    /\ ~FewPresent(NumericCols(df)[1])

\* the scores are not all equal
ScoresDiffer(scores) ==
    \E p \in 1..SLen(scores) : \E q \in 1..SLen(scores) :
        ~FEq(scores.values[p], scores.values[q])

\* C28: whenever the raw values of the batch are not all equal,
\* detect_isolation_forest_anomalies gives some record exactly 1.0 and some
\* record exactly 0.0, so analyze_anomalies with method 'isolation_forest'
\* reports anomaly_count >= 1 at every threshold <= 1.
C28_IsolationAlwaysFlags ==
    (Analyzed /\ results.method = "isolation_forest" /\ Len(CompleteRows(df)) >= 2
        /\ Ge(Num(1, 1), results.threshold)) =>
        /\ results.err = "none"
        /\ ScoresDiffer(results.scores) => results.anomaly_count >= 1

\* the weights of the entries, in units of 1/(10 * len(methods))
TermWeights(terms, methods, weights) ==
    [t \in 1..Len(terms) |-> WeightOf(terms[t].method, methods, weights)]

AlignedTerms(d, terms) == [t \in 1..Len(terms) |-> Aligned(d, terms[t])]

\* the weighted sum of the entries' scores for the record at position k,
\* clipped to [0,1]
ClippedRawSum(methods, aligned, wts, k) ==
    Clip01(Num(SumSeq([t \in 1..Len(aligned) |-> aligned[t].values[k].n * wts[t]]),
               Scale * 10 * Len(methods)))

\* res is the clipped raw weighted sum, and 0 everywhere when every weight is 0
UndividedSum(d, methods, aligned, wts, res) ==
    /\ res.err = "none"
    /\ \A k \in 1..Len(d.index) :
        /\ FEq(res.val.values[k], ClippedRawSum(methods, aligned, wts, k))
        /\ (\A t \in 1..Len(wts) : wts[t] = 0) => FEq(res.val.values[k], Zero)

\* the entries were all made and their weights sum to zero or less
NonPositiveTotal(terms, wts) ==
    /\ Len(terms) > 0
    /\ FirstFailure(terms) = "none"
    /\ SumSeq(wts) <= 0

UndividedWhenNonPositive(d, methods, terms, wts, res) ==
    NonPositiveTotal(terms, wts) =>
        UndividedSum(d, methods, AlignedTerms(d, terms), wts, res)

UndividedFor(d, methods, weights, terms, res) ==
    UndividedWhenNonPositive(d, methods, terms, TermWeights(terms, methods, weights), res)

ZeroTotal(terms, methods, weights) ==
    Len(terms) > 0 /\ SumSeq(TermWeights(terms, methods, weights)) = 0

AgreeOnFirstNumeric(d, e) ==
    /\ Len(NumericCols(d)) > 0
    /\ Len(NumericCols(e)) > 0
    /\ Col(e, NumericCols(e)[1]) = Col(d, NumericCols(d)[1])

SameOutcome(res, other) ==
    /\ other.err = res.err
    /\ other.scores = res.scores
    /\ other.anomaly_count = res.anomaly_count
    /\ other.anomaly_rate = res.anomaly_rate
    /\ other.score_stats = res.score_stats

\* the columns a dataset has after its first numeric column
OtherColumns(len) ==
    UNION {{r, r \o <<DateColumn(len)>>} :
              r \in {<<>>} \cup {<<NumColumn("stake", g, len)>> : g \in StakeHeads}}

\* the datasets of len records whose first numeric column is first
FramesWith(first, len) == {Frame(len, <<first>> \o r) : r \in OtherColumns(len)}

SameOnAll(frames, res) ==
    \A e \in frames : SameOutcome(res, AnalyzeAnomalies(e, res.method, res.threshold))

\* C30: in analyze_anomalies with method 'zscore' or 'iqr' only the first
\* numeric column is scored: two datasets that agree on their first numeric
\* column and differ in every other column produce identical scores,
\* anomaly_count, anomaly_rate and summary statistics.
C30_OnlyFirstNumericColumn ==
    (Analyzed /\ results.method \in {"zscore", "iqr"} /\ Len(NumericCols(df)) > 0) =>
        SameOnAll(FramesWith(df.cols[NumericCols(df)[1]], Len(df.index)), results)

\* a z-score report with a flagged record on a frame with a second numeric
\* column; the datasets with its first numeric column are those that agree
\* with it on that column, and one of them has no other numeric column
C30_Witness ==
    /\ Reported
    /\ results.method = "zscore"
    /\ results.anomaly_count > 0
    /\ Len(NumericCols(df)) = 2
    /\ Col(df, NumericCols(df)[2]) # Col(df, NumericCols(df)[1])
    /\ FramesWith(df.cols[NumericCols(df)[1]], Len(df.index))
           = {e \in Datasets : AgreeOnFirstNumeric(df, e)}
    /\ \E e \in FramesWith(df.cols[NumericCols(df)[1]], Len(df.index)) :
           Len(NumericCols(e)) = 1

====
